---- MODULE Spec2Model ----
(***************************************************************************)
(* Email pipeline of sendemailauto: EmailService (src/server.js),          *)
(* GmailService rate limiter and GoogleSheetsService recipient filter      *)
(* (src/services/gmailService.js), CronJobManager.executeEmailJob          *)
(* and the CronJobManager scheduler with the /cronjob routes                *)
(* (src/utils/cronJobManager.js).                                          *)
(*                                                                         *)
(* Node runs one callback at a time: an action below is the synchronous    *)
(* code between two awaits of one call.  Time is in milliseconds and is    *)
(* measured from the present: Date.now() reads 0, a stored instant t is    *)
(* kept as t - Date.now(), and an instant more than Horizon ms in the past *)
(* is kept as -Horizon.  The code only ever compares differences of        *)
(* instants, all of them smaller than Horizon.  The clock moves when a     *)
(* transport call or a timer completes.                                    *)
(***************************************************************************)
EXTENDS Integers, Sequences, FiniteSets, TLC

\* ---- bounds of the model ------------------------------------------------
MaxCallers == 2
MaxRecipients == 2
Horizon == 10000
MaxTasks == 3
MaxJobs == 1
MaxTokens == 1

\* ---- program constants --------------------------------------------------
DefaultMaxRetries == 3
DefaultRateLimitMs == 1000
DefaultInterval == 30

Callers == 1..MaxCallers
Rows == 1..MaxRecipients
Null == "null"

\* how long a transport call takes (shorter than the rate-limit gap)
SendDurations == {400}
SendOutcomes == {"ok", "fail", "throw"}
ListOutcomes == {"ok", "throw"}
\* a data row of Sheet2: both cells filled, column B only white space, or a
\* row the filter drops (a header, a missing cell)
TemplateRows == {"valid", "blank", "incomplete"}
\* Sheet2 as the kinds of rows it holds
TemplateSheets == SUBSET TemplateRows
TemplateReads == {"ok", "throw"}
WriteOutcomes == {"true", "false", "throw"}
SheetStatuses == {"new", "sent"}
\* the interval a /cronjob request carries: none, or a number
Intervals == {-1, 0, 90}
Bodies == {<<>>} \cup {<<n>> : n \in Intervals}
\* currentJob.stop() and currentJob.destroy(): both return, or one throws
CancelOutcomes == {"ok", "stopThrows", "destroyThrows"}

VARIABLES
    processing,     \* EmailService.processing
    lastSentTime,   \* GmailService.lastSentTime
    sheet,          \* Sheet1 column F, one status per data row
    proc,           \* per call: position and locals of the async call
    hist,           \* per call: what the call has done to the transport so far
    cron,           \* CronJobManager: currentJob, interval, active, nextRunTime
    tasks,          \* the tasks cron.schedule has created, in order of creation
    pending,        \* setTimeout(executeEmailJob, 5000) timers not yet fired
    last,           \* the last control call: its argument, result and pre-state
    probe           \* the last read-only call: its function, argument and result

vars == <<processing, lastSentTime, sheet, proc, hist, cron, tasks, pending, last,
          probe>>

\* Date.now()
now == 0

Max(a, b) == IF a >= b THEN a ELSE b

RECURSIVE Pow2(_)
Pow2(n) == IF n <= 0 THEN 1 ELSE 2 * Pow2(n - 1)

\* ---- GoogleSheetsService ------------------------------------------------
\* getRecipientData: one recipient per data row, in row order; row i of the
\* data is spreadsheet row i + 1 (row 1 is the header).
getRecipientData(sh) ==
    [i \in 1..Len(sh) |-> [rowIndex |-> i + 1, status |-> sh[i]]]

IsUnprocessed(r) ==
    r.status # "sent" /\ r.status # "failed" /\ r.status # "completed"

getUnprocessedRecipients(sh) == SelectSeq(getRecipientData(sh), IsUnprocessed)

\* rows.filter(...): the rows that have both a title and a subject
ValidRows(rows) == {r \in rows : r # "incomplete"}

\* what Math.random() can select
TemplatePicks(rows) == IF ValidRows(rows) = {} THEN {Null} ELSE ValidRows(rows)

\* a text is a sequence of pieces: literal text, or the token {{id}}; the
\* empty string is the empty sequence
Lit(s) == [ph |-> FALSE, s |-> s]
Ph(id) == [ph |-> TRUE, s |-> id]

DefaultTemplate ==
    [subject |-> <<Lit("Default Subject")>>, content |-> <<Lit("Default email content")>>]

\* selectedRow[1].trim()
Trim(cell) == IF cell = "blank" THEN <<>> ELSE <<Lit("Subject")>>

\* getEmailTemplate: the default template when no row is valid, else the
\* selected row's column B as subject and as content
getEmailTemplate(rows, pick) ==
    IF ValidRows(rows) = {}
    THEN DefaultTemplate
    ELSE [subject |-> Trim(pick), content |-> Trim(pick)]

\* the replacement table of personalizeContent
Replacements(recipient) ==
    [name |-> IF recipient.name = "" THEN "Ban" ELSE recipient.name,
     keyword |-> recipient.keyword,
     address |-> recipient.address,
     website |-> recipient.website,
     email |-> recipient.primaryEmail,
     company |-> recipient.name]

\* text.replace(new RegExp(`{{${key}}}`, 'g'), table[key]) for every key of
\* table (the values hold no token)
ReplaceAll(text, table) ==
    [i \in 1..Len(text) |->
        IF text[i].ph /\ text[i].s \in DOMAIN table
        THEN Lit(table[text[i].s]) ELSE text[i]]

\* variant: a missing name is replaced like every other missing field
personalizeContentPlain(template, recipient) ==
    LET table == [Replacements(recipient) EXCEPT !.name = recipient.name]
    IN [subject |-> ReplaceAll(template.subject, table),
        content |-> ReplaceAll(template.content, table)]

\* personalizeContent(template, recipient), used by getEmailPreview
personalizeContent(template, recipient) ==
    [subject |-> ReplaceAll(template.subject, Replacements(recipient)),
     content |-> ReplaceAll(template.content, Replacements(recipient))]

\* ---- GmailService -------------------------------------------------------
\* processEmailTemplate(template, variables): every {{key}} with key a
\* property of variables becomes variables[key] || ''
processEmailTemplate(text, variables) == ReplaceAll(text, variables)

\* content without markup: \n becomes <br>
formatEmailContent(text) ==
    [i \in 1..Len(text) |-> IF text[i] = Lit("\n") THEN Lit("<br>") ELSE text[i]]

prepareEmail(recipient, template) ==
    [to |-> recipient.rowIndex, recipientId |-> recipient.rowIndex,
     subject |-> processEmailTemplate(template.subject, recipient),
     html |-> formatEmailContent(processEmailTemplate(template.content, recipient))]

\* variant: the batch built in reverse order
prepareEmailBatchReversed(recipients, template) ==
    [i \in 1..Len(recipients) |->
        prepareEmail(recipients[Len(recipients) + 1 - i], template)]

prepareEmailBatch(recipients, template) ==
    [i \in 1..Len(recipients) |-> prepareEmail(recipients[i], template)]

\* ---- per-call records ---------------------------------------------------
EmptyResults == [sent |-> 0, failed |-> 0, details |-> <<>>]

IdleProc ==
    [pc |-> "idle", kind |-> "none", status |-> FALSE,
     recipients |-> <<>>, emails |-> <<>>,
     idx |-> 0, attempt |-> 0, sent |-> FALSE, lastError |-> Null,
     results |-> EmptyResults, k |-> 0, wake |-> 0, sendStart |-> 0,
     remaining |-> 0, ret |-> Null]

\* sendCount[i], outcomes[i], backoffs[i]: the sendEmail calls made for email
\* i, whether each succeeded, and the backoff delays requested for it;
\* order: the recipients in the order their sends started; gap: the time
\* between the last two sendEmail invocations; waited: the time between the
\* previous sendEmail settling and the last invocation (-1: no such pair);
\* setupError: the error getUnprocessedRecipients or getEmailTemplate threw;
\* noValidRows: getEmailTemplate found no valid row; logged, updated: the
\* recipients whose logEmailResult / updateRecipientStatus call was issued;
\* threw: those whose logEmailResult threw; writeFailed: a write has failed;
\* origin: what called executeEmailJob ("scheduler": the recurring trigger's
\* tick or the run-on-start timer; "manual": triggerNow); validation: how
\* far validateConfiguration got in the job; templateCalls: the
\* getEmailTemplate calls the run issued; template: what they returned
NoHist ==
    [sendCount |-> <<>>, outcomes |-> <<>>, backoffs |-> <<>>, order |-> <<>>,
     sends |-> 0, lastStart |-> 0, lastEnd |-> 0, gap |-> -1, waited |-> -1,
     storeCalls |-> 0, setupError |-> Null, noValidRows |-> FALSE,
     logged |-> <<>>, updated |-> <<>>, threw |-> {}, writeFailed |-> FALSE,
     origin |-> "none", validation |-> "none",
     templateCalls |-> 0, template |-> <<>>]

\* the part of the state one synchronous step of call c reads and writes
Machine(c) ==
    [p |-> proc[c], h |-> hist[c], processing |-> processing,
     lastSentTime |-> lastSentTime, now |-> now]

\* instant t as seen once the clock has moved on by delta
Rebase(t, delta) == Max(t - delta, -Horizon)

\* sendStart is read only while the send is in flight, wake only while the
\* timer is pending; attempt, sent and lastError are locals of one iteration
\* of the for-of loop, read only up to the push of the detail entry
RebaseProc(p, delta) ==
    LET inLoop == p.pc \in {"sending", "backoff"}
    IN [p EXCEPT !.sendStart = IF p.pc = "sending" THEN Rebase(@, delta) ELSE 0,
                 !.wake = IF p.pc \in {"backoff", "rateWait"} THEN Rebase(@, delta) ELSE 0,
                 !.attempt = IF inLoop THEN @ ELSE 0,
                 !.sent = IF inLoop THEN @ ELSE FALSE,
                 !.lastError = IF inLoop THEN @ ELSE Null]

\* the timing of the sends is kept while the send loop of call p is running
RebaseHist(p, h, delta) ==
    IF h.sends = 0 THEN h
    ELSE IF p.pc \in {"sending", "backoff", "rateWait"}
    THEN [h EXCEPT !.lastStart = Rebase(@, delta), !.lastEnd = Rebase(@, delta)]
    ELSE [h EXCEPT !.lastStart = 0, !.lastEnd = 0, !.gap = -1, !.waited = -1]

\* the step of call c ends in m, at instant m.now
CommitCall(c, m) ==
    /\ proc' = [d \in Callers |-> RebaseProc(IF d = c THEN m.p ELSE proc[d], m.now)]
    /\ hist' = [d \in Callers |->
                   IF d = c THEN RebaseHist(m.p, m.h, m.now)
                   ELSE RebaseHist(proc[d], hist[d], m.now)]
    /\ processing' = m.processing
    /\ lastSentTime' = Rebase(m.lastSentTime, m.now)
    /\ UNCHANGED sheet

\* a step that leaves the scheduler alone
Commit(c, m) == CommitCall(c, m) /\ UNCHANGED <<cron, tasks, pending, last, probe>>

\* ---- CronJobManager ------------------------------------------------------
NoJob == 0

\* the constructor; nextRunTime is <<>> for null, else <<n>> for the estimate
\* "now + n minutes"
NewCron == [currentJob |-> NoJob, interval |-> DefaultInterval, active |-> FALSE,
            nextRunTime |-> <<>>]

\* threw: the call raised an exception to its caller instead of returning;
\* lib: the library calls the control call made, with what they did;
\* recorded: the call before it was an updateInterval() of an inactive
\* scheduler
NoCall == [op |-> "none", arg |-> <<>>, ret |-> FALSE, threw |-> FALSE,
           before |-> NewCron, tasksBefore |-> <<>>, lib |-> <<>>, recorded |-> FALSE]

\* the scheduler, the library's tasks and the timers as one control call
\* reads and writes them
Control == [cron |-> cron, tasks |-> tasks, pending |-> pending, ret |-> FALSE,
            threw |-> FALSE, lib |-> <<>>]

\* variant: the error of a library call leaves the method
Rethrown(k) == [k EXCEPT !.threw = TRUE]

\* catch (error) { this.logger.error(...); return false; }
Caught(k) == [k EXCEPT !.ret = FALSE]

\* `*/${n} * * * *` below an hour, else `0 */${floor(n / 60)} * * *`
createCronExpression(intervalMinutes) ==
    IF intervalMinutes < 60
    THEN [field |-> "minute", step |-> intervalMinutes]
    ELSE [field |-> "hour", step |-> intervalMinutes \div 60]

\* cron.schedule validates the expression: a step below 0 is no cron
\* expression; what the library makes of a step of 0 is not fixed here
ScheduleOutcomes(expr) ==
    IF expr.step >= 1 THEN {"ok"}
    ELSE IF expr.step = 0 THEN {"ok", "throw"}
    ELSE {"throw"}

\* variant: the estimate is set whether or not the scheduler is active
updateNextRunTimeUnguarded(cr) == [cr EXCEPT !.nextRunTime = <<cr.interval>>]

\* updateNextRunTime(): null when inactive, else now + interval minutes
updateNextRunTime(cr) ==
    IF ~cr.active \/ cr.currentJob = NoJob
    THEN [cr EXCEPT !.nextRunTime = <<>>]
    ELSE [cr EXCEPT !.nextRunTime = <<cr.interval>>]

\* variant: no check of the active flag
startUnguarded(k, intervalMinutes, out, runOnStart) ==
    LET k1 == [k EXCEPT !.cron.interval = intervalMinutes,
                        !.lib = Append(@, <<"schedule", out>>)]
        t == Len(k.tasks) + 1
    IN IF out = "throw"
       THEN Caught(k1)
       ELSE [k1 EXCEPT
               !.tasks = Append(@, [status |-> "running",
                                    expr |-> createCronExpression(intervalMinutes)]),
               !.cron = updateNextRunTime([@ EXCEPT !.currentJob = t, !.active = TRUE]),
               !.pending = IF runOnStart THEN @ + 1 ELSE @,
               !.ret = TRUE]

\* start(intervalMinutes): out is what cron.schedule does with the expression,
\* runOnStart is process.env.RUN_ON_START === 'true'
start(k, intervalMinutes, out, runOnStart) ==
    IF k.cron.active
    THEN [k EXCEPT !.ret = FALSE]
    ELSE LET k1 == [k EXCEPT !.cron.interval = intervalMinutes,
                             !.lib = Append(@, <<"schedule", out>>)]
             t == Len(k.tasks) + 1
         IN IF out = "throw"
            THEN Caught(k1)
            ELSE [k1 EXCEPT
                    !.tasks = Append(@, [status |-> "running",
                                         expr |-> createCronExpression(intervalMinutes)]),
                    !.cron = updateNextRunTime([@ EXCEPT !.currentJob = t, !.active = TRUE]),
                    !.pending = IF runOnStart THEN @ + 1 ELSE @,
                    !.ret = TRUE]

\* a task that was stopped or destroyed keeps no schedule
Cancelled(status) == [status |-> status, expr |-> <<>>]

\* variant: the flag is cleared but the trigger is left running
stopKeepTrigger(k, out) ==
    IF ~k.cron.active \/ k.cron.currentJob = NoJob
    THEN [k EXCEPT !.ret = FALSE]
    ELSE [k EXCEPT !.cron = [@ EXCEPT !.currentJob = NoJob, !.active = FALSE,
                                      !.nextRunTime = <<>>],
                   !.lib = Append(@, <<"cancel", out>>),
                   !.ret = TRUE]

\* stop(): out is what the two library calls do
stop(k, out) ==
    IF ~k.cron.active \/ k.cron.currentJob = NoJob
    THEN [k EXCEPT !.ret = FALSE]
    ELSE LET k1 == [k EXCEPT !.lib = Append(@, <<"cancel", out>>)]
         IN IF out = "stopThrows"
            THEN Caught(k1)
            ELSE IF out = "destroyThrows"
            THEN Caught([k1 EXCEPT !.tasks[k.cron.currentJob] = Cancelled("stopped")])
            ELSE [k1 EXCEPT !.tasks[k.cron.currentJob] = Cancelled("destroyed"),
                            !.cron = [@ EXCEPT !.currentJob = NoJob, !.active = FALSE,
                                               !.nextRunTime = <<>>],
                            !.ret = TRUE]

\* variant: the new trigger is started without stopping the old one
updateIntervalNoStop(k, intervalMinutes, cancel, out, runOnStart) ==
    IF ~k.cron.active
    THEN [k EXCEPT !.cron.interval = intervalMinutes, !.ret = TRUE]
    ELSE startUnguarded(k, intervalMinutes, out, runOnStart)

\* updateInterval(intervalMinutes): this.stop(), then this.start(...)
updateInterval(k, intervalMinutes, cancel, out, runOnStart) ==
    IF ~k.cron.active
    THEN [k EXCEPT !.cron.interval = intervalMinutes, !.ret = TRUE]
    ELSE start(stop(k, cancel), intervalMinutes, out, runOnStart)

\* no read-only call has been made
NoProbe == [fn |-> "none", arg |-> <<>>, out |-> <<>>, threw |-> FALSE, done |-> FALSE]

\* the services and the scheduler after their constructors
InitBase ==
    /\ processing = FALSE
    /\ lastSentTime = Rebase(0, Horizon)    \* set to 0 long before the first call
    /\ sheet \in [Rows -> SheetStatuses]
    /\ proc = [c \in Callers |-> IdleProc]
    /\ hist = [c \in Callers |-> NoHist]
    /\ cron = NewCron
    /\ tasks = <<>>
    /\ pending = 0
    /\ last = NoCall

Init == InitBase /\ probe = NoProbe

\* ---- EmailService.sendEmailsWithRetry and what follows it ----------------
maxRetries == DefaultMaxRetries

\* variant: the exponent counted from 0
BackoffDelayFromZero(attempt) == Pow2(attempt - 1) * 1000

\* Math.pow(2, attempt) * 1000
BackoffDelay(attempt) == Pow2(attempt) * 1000

\* Number(process.env.EMAIL_RATE_LIMIT_MS || 1000)
minGap == DefaultRateLimitMs

\* variant: the flag reset at the end of the try block instead of in finally
ReleaseOnSuccessOnly(m) == IF m.p.pc = "threw" THEN m ELSE [m EXCEPT !.processing = FALSE]

\* finally { this.processing = false; }
ReleaseProcessing(m) == [m EXCEPT !.processing = FALSE]

\* variant: the call settles without running its finally block
FinishKeepFlag(m, pc, ret) == [m EXCEPT !.p.pc = pc, !.p.ret = ret]

\* the call leaves the try block with outcome pc and value ret
Finish(m, pc, ret) == ReleaseProcessing([m EXCEPT !.p.pc = pc, !.p.ret = ret])

\* variant: total taken from the sent counter
SummaryTotalSent(p) ==
    [sent |-> p.results.sent, failed |-> p.results.failed,
     total |-> p.results.sent, details |-> p.results.details]

\* return { sent, failed, total, details } (processSingleEmail: total 1)
Summary(p) ==
    IF p.kind = "single"
    THEN [sent |-> p.results.sent, failed |-> p.results.failed, total |-> 1,
          remainingEmails |-> p.remaining, details |-> p.results.details]
    ELSE [sent |-> p.results.sent, failed |-> p.results.failed,
          total |-> Len(p.emails), details |-> p.results.details]

HasRecipient(recipients, id) == \E i \in 1..Len(recipients) : recipients[i].rowIndex = id

\* updateRecipientStatuses: from result k on, the first result whose recipient
\* is found starts its logEmailResult call; past the last one the call returns
RECURSIVE PersistFrom(_, _)
PersistFrom(m, k) ==
    IF k > Len(m.p.results.details)
    THEN Finish([m EXCEPT !.p.k = k], "returned", Summary(m.p))
    ELSE IF HasRecipient(m.p.recipients, m.p.results.details[k].recipientId)
         THEN [m EXCEPT !.p.k = k, !.p.pc = "logging",
                         !.h.storeCalls = @ + 1,
                         !.h.logged = Append(@, m.p.results.details[k].recipientId)]
         ELSE PersistFrom(m, k + 1)

\* this.gmailService.sendEmail(...) is invoked for emails[idx]
StartSend(m) ==
    LET i == m.p.idx
        id == m.p.emails[i].recipientId
        ord == m.h.order
        first == m.h.sends = 0
    IN [m EXCEPT !.p.pc = "sending", !.p.sendStart = m.now,
                 !.h.sendCount[i] = @ + 1,
                 !.h.sends = @ + 1,
                 !.h.order = IF Len(ord) > 0 /\ ord[Len(ord)] = id
                             THEN ord ELSE Append(ord, id),
                 !.h.gap = IF first THEN -1 ELSE m.now - m.h.lastStart,
                 !.h.waited = IF first THEN -1 ELSE m.now - m.h.lastEnd,
                 !.h.lastStart = m.now]

\* the next email of the for-of loop, or the end of the loop
NextEmail(m) ==
    IF m.p.idx < Len(m.p.emails)
    THEN StartSend([m EXCEPT !.p.idx = @ + 1, !.p.attempt = 1,
                             !.p.sent = FALSE, !.p.lastError = Null])
    ELSE PersistFrom(m, 1)

\* waitForRateLimit after its optional delay: this.lastSentTime = Date.now()
RateLimitDone(m) == NextEmail([m EXCEPT !.lastSentTime = m.now])

NeedsRateWait(since) == since < minGap

\* waitForRateLimit up to its optional delay
waitForRateLimit(m) ==
    LET since == m.now - m.lastSentTime
    IN IF NeedsRateWait(since)
       THEN [m EXCEPT !.p.pc = "rateWait", !.p.wake = m.now + (minGap - since)]
       ELSE RateLimitDone(m)

\* variant: the attempt recorded zero-based
SentDetailZeroBased(email, messageId, attempt) ==
    [recipientId |-> email.recipientId, email |-> email.to, status |-> "sent",
     messageId |-> messageId, attempt |-> attempt - 1]

SentDetail(email, messageId, attempt) ==
    [recipientId |-> email.recipientId, email |-> email.to, status |-> "sent",
     messageId |-> messageId, attempt |-> attempt]

FailedDetail(email, lastError) ==
    [recipientId |-> email.recipientId, email |-> email.to, status |-> "failed",
     error |-> lastError, attempts |-> maxRetries]

\* variant: no 'failed' entry pushed after the loop
AfterLoopNoFailedEntry(m) == waitForRateLimit(m)

\* variant: an exhausted recipient aborts the run
AfterLoopAbortOnFailure(m) ==
    IF m.p.sent THEN waitForRateLimit(m) ELSE Finish(m, "threw", m.p.lastError)

\* after the retry loop of one email: if (!sent) {...}; waitForRateLimit()
AfterLoop(m) ==
    IF m.p.sent
    THEN waitForRateLimit(m)
    ELSE waitForRateLimit(
           [m EXCEPT !.p.results.failed = @ + 1,
                     !.p.results.details =
                         Append(@, FailedDetail(m.p.emails[m.p.idx], m.p.lastError))])

\* variant: one retry too many
RetryAllowedOffByOne(attempt) == attempt <= maxRetries

RetryAllowed(attempt) == attempt < maxRetries

\* the rest of one loop iteration after sendEmail settled with outcome out;
\* n is the number of sendEmail calls made for this email so far, which the
\* transport's message id or error is tagged with
AfterAttempt(m, out) ==
    LET i == m.p.idx
        n == m.h.sendCount[i]
        m1 == [m EXCEPT !.h.outcomes[i] = Append(@, out = "ok"), !.h.lastEnd = m.now]
    IN IF out = "ok"
       THEN AfterLoop([m1 EXCEPT
                !.p.results.sent = @ + 1,
                !.p.results.details =
                    Append(@, SentDetail(m.p.emails[i], <<"id", n>>, m.p.attempt)),
                !.p.sent = TRUE])
       ELSE LET m2 == [m1 EXCEPT !.p.lastError = <<out, n>>]
            IN IF RetryAllowed(m.p.attempt)
               THEN [m2 EXCEPT !.p.pc = "backoff",
                               !.p.wake = m.now + BackoffDelay(m.p.attempt),
                               !.h.backoffs[i] =
                                   Append(@, <<n, BackoffDelay(m.p.attempt)>>)]
               ELSE AfterLoop(m2)

\* sendEmailsWithRetry(emails): the loop starts with the first email
sendEmailsWithRetry(m) ==
    LET n == Len(m.p.emails)
    IN StartSend([m EXCEPT !.p.results = EmptyResults,
                           !.p.idx = 1, !.p.attempt = 1, !.p.sent = FALSE,
                           !.p.lastError = Null,
                           !.h.sendCount = [i \in 1..n |-> 0],
                           !.h.outcomes = [i \in 1..n |-> <<>>],
                           !.h.backoffs = [i \in 1..n |-> <<>>]])

\* variant: no check of the processing flag at entry
EnterUnguarded(m, kind) ==
    [m EXCEPT !.processing = TRUE, !.p.pc = "listing", !.p.kind = kind,
              !.h.storeCalls = @ + 1]

\* variant: the flag is checked but never set
EnterNoSet(m, kind) ==
    IF m.processing
    THEN [m EXCEPT !.p.pc = "rejected", !.p.kind = kind,
                   !.p.ret = "Email processing already in progress"]
    ELSE [m EXCEPT !.p.pc = "listing", !.p.kind = kind, !.h.storeCalls = @ + 1]

\* ---- EmailService.processEmails / processSingleEmail --------------------
\* variant: the check sits inside the try block, whose finally clears the flag
EnterReleaseOnReject(m, kind) ==
    IF m.processing
    THEN [m EXCEPT !.processing = FALSE, !.p.pc = "rejected", !.p.kind = kind,
                   !.p.ret = "Email processing already in progress"]
    ELSE [m EXCEPT !.processing = TRUE, !.p.pc = "listing", !.p.kind = kind,
                   !.h.storeCalls = @ + 1]

\* the flag check-and-set and the call of getUnprocessedRecipients
Enter(m, kind) ==
    IF m.processing
    THEN [m EXCEPT !.p.pc = "rejected", !.p.kind = kind,
                   !.p.ret = "Email processing already in progress"]
    ELSE [m EXCEPT !.processing = TRUE, !.p.pc = "listing", !.p.kind = kind,
                   !.h.storeCalls = @ + 1]

\* getUnprocessedRecipients settled
AfterList(m, out, unsent) ==
    IF out = "throw"
    THEN Finish([m EXCEPT !.h.setupError = "Failed to read recipient data"],
                "threw", "Failed to read recipient data")
    ELSE IF Len(unsent) = 0
    THEN Finish(m, "returned", [sent |-> 0, failed |-> 0, message |-> "No emails to send"])
    ELSE [m EXCEPT !.p.pc = "templating",
                   !.p.recipients = IF m.p.kind = "single" THEN <<unsent[1]>> ELSE unsent,
                   !.p.remaining = Len(unsent) - 1,
                   !.h.storeCalls = @ + 1,
                   !.h.templateCalls = @ + 1]

\* !template || !template.subject || !template.content
IsInvalidTemplate(template) == template.subject = <<>> \/ template.content = <<>>

\* variant: a failed template read falls back to the default template
AfterTemplateSwallow(m, out, rows, pick) ==
    LET template == IF out = "throw" THEN DefaultTemplate ELSE getEmailTemplate(rows, pick)
        n == IF out = "throw"
             THEN [m EXCEPT !.h.setupError = "Failed to read email template"]
             ELSE [m EXCEPT !.h.noValidRows = (ValidRows(rows) = {}),
                            !.h.template = Append(@, template)]
    IN IF IsInvalidTemplate(template)
       THEN Finish(n, "threw", "Invalid email template")
       ELSE sendEmailsWithRetry(
                [n EXCEPT !.p.emails = prepareEmailBatch(m.p.recipients, template)])

\* getEmailTemplate settled: it threw, or it read Sheet2 as rows and selected
\* pick
\* variant: only the first message is rendered from the fetched template
AfterTemplatePerRecipient(m, out, rows, pick) ==
    LET template == getEmailTemplate(rows, pick)
        n == [m EXCEPT !.h.noValidRows = (ValidRows(rows) = {}),
                       !.h.template = Append(@, template)]
        rest == prepareEmailBatch(m.p.recipients, DefaultTemplate)
    IN IF out = "throw"
       THEN Finish([m EXCEPT !.h.setupError = "Failed to read email template"],
                   "threw", "Failed to read email template")
       ELSE IF IsInvalidTemplate(template)
       THEN Finish(n, "threw", "Invalid email template")
       ELSE sendEmailsWithRetry(
                [n EXCEPT !.p.emails =
                    [i \in 1..Len(m.p.recipients) |->
                        IF i = 1 THEN prepareEmail(m.p.recipients[1], template)
                        ELSE rest[i]]])

AfterTemplate(m, out, rows, pick) ==
    LET template == getEmailTemplate(rows, pick)
        n == [m EXCEPT !.h.noValidRows = (ValidRows(rows) = {}),
                       !.h.template = Append(@, template)]
    IN IF out = "throw"
       THEN Finish([m EXCEPT !.h.setupError = "Failed to read email template"],
                   "threw", "Failed to read email template")
       ELSE IF IsInvalidTemplate(template)
       THEN Finish(n, "threw", "Invalid email template")
       ELSE sendEmailsWithRetry(
                [n EXCEPT !.p.emails = prepareEmailBatch(m.p.recipients, template)])

\* the id of the recipient of result k
WriteId(m) == m.p.results.details[m.p.k].recipientId

\* variant: a throwing logEmailResult ends the persistence loop
AfterLogAbort(m, out) ==
    LET n == [m EXCEPT !.h.writeFailed = @ \/ out # "true",
                       !.h.threw = IF out = "throw" THEN @ \cup {WriteId(m)} ELSE @]
    IN IF out = "throw"
       THEN PersistFrom(n, Len(m.p.results.details) + 1)
       ELSE [n EXCEPT !.p.pc = "updating", !.h.storeCalls = @ + 1,
                      !.h.updated = Append(@, WriteId(m))]

\* logEmailResult settled for result k: a throw is caught after the try block,
\* past the updateRecipientStatus call
AfterLog(m, out) ==
    LET n == [m EXCEPT !.h.writeFailed = @ \/ out # "true",
                       !.h.threw = IF out = "throw" THEN @ \cup {WriteId(m)} ELSE @]
    IN IF out = "throw"
       THEN PersistFrom(n, m.p.k + 1)
       ELSE [n EXCEPT !.p.pc = "updating", !.h.storeCalls = @ + 1,
                      !.h.updated = Append(@, WriteId(m))]

\* updateRecipientStatus settled for result k
AfterUpdate(m, out) ==
    PersistFrom([m EXCEPT !.h.writeFailed = @ \/ out # "true"], m.p.k + 1)

\* ---- EmailService.validateConfiguration ----------------------------------
\* what the four awaited calls of one validateConfiguration() do: sheets is
\* the result of testConnection(), auth of isAuthenticated(), list and
\* recipients of getRecipientData(), read, rows and pick of getEmailTemplate()
ValidationInputs(recipientLists) ==
    {[sheets |-> s, auth |-> a, list |-> l, recipients |-> r, read |-> t,
      rows |-> rows, pick |-> pick] :
        s \in BOOLEAN, a \in {"true", "false", "throw"}, l \in ListOutcomes,
        r \in recipientLists, t \in TemplateReads,
        rows \in TemplateSheets, pick \in TemplateRows \cup {Null}}

\* the inputs in which Math.random() selects a row Sheet2 has
IsReading(i) == i.pick \in TemplatePicks(i.rows)

\* `Configuration validation error: ${error.message}`
ValidationError == "Configuration validation error"

\* variant: the template is not looked at
IssuesNoTemplateCheck(i) ==
    LET s1 == IF i.sheets THEN <<>> ELSE <<"Google Sheets connection failed">>
        s2 == IF i.auth = "true" THEN s1 ELSE Append(s1, "Gmail authentication failed")
        s3 == IF Len(i.recipients) > 0 THEN s2
              ELSE Append(s2, "No recipients found in Google Sheets")
    IN IF i.auth = "throw" THEN Append(s1, ValidationError)
       ELSE IF i.list = "throw" THEN Append(s2, ValidationError)
       ELSE s3

\* the issues array at the return statement: the checks in order, up to the
\* first call that throws
Issues(i) ==
    LET s1 == IF i.sheets THEN <<>> ELSE <<"Google Sheets connection failed">>
        s2 == IF i.auth = "true" THEN s1 ELSE Append(s1, "Gmail authentication failed")
        s3 == IF Len(i.recipients) > 0 THEN s2
              ELSE Append(s2, "No recipients found in Google Sheets")
        s4 == IF IsInvalidTemplate(getEmailTemplate(i.rows, i.pick))
              THEN Append(s3, "Invalid or missing email template") ELSE s3
    IN IF i.auth = "throw" THEN Append(s1, ValidationError)
       ELSE IF i.list = "throw" THEN Append(s2, ValidationError)
       ELSE IF i.read = "throw" THEN Append(s3, ValidationError)
       ELSE s4

\* return { valid: issues.length === 0, issues }
validateConfiguration(i) == [valid |-> Len(Issues(i)) = 0, issues |-> Issues(i)]

\* ---- CronJobManager.executeEmailJob --------------------------------------
\* the call up to await getProcessingStatus(), which reads the flag
executeEmailJob(m, origin) ==
    [m EXCEPT !.p.pc = "jobStatus", !.p.kind = "job", !.p.status = m.processing,
              !.h.origin = origin]

\* variant: the job goes on whatever getProcessingStatus() reported
AfterStatusNoSkip(m, auth) ==
    IF auth = "throw"
    THEN [m EXCEPT !.p.pc = "jobFailed"]
    ELSE [m EXCEPT !.p.pc = "jobValidating", !.h.validation = "started"]

\* getProcessingStatus() settled: if (status.processing) return; else
\* validateConfiguration() is called.  isAuthenticated() is awaited by
\* getProcessingStatus only when the flag was false, and may throw.
AfterStatus(m, auth) ==
    IF m.p.status
    THEN [m EXCEPT !.p.pc = "skipped"]
    ELSE IF auth = "throw"
    THEN [m EXCEPT !.p.pc = "jobFailed"]
    ELSE [m EXCEPT !.p.pc = "jobValidating", !.h.validation = "started"]

\* variant: processEmails() is called whatever the validation reported
AfterValidationNoGate(m, valid) ==
    Enter([m EXCEPT !.h.validation = IF valid THEN "valid" ELSE "invalid"], "job")

\* validateConfiguration() settled: if (!validation.valid) return; else
\* processEmails() is called
AfterValidation(m, valid) ==
    IF valid
    THEN Enter([m EXCEPT !.h.validation = "valid"], "job")
    ELSE [m EXCEPT !.p.pc = "invalidConfig", !.h.validation = "invalid"]

\* ---- actions ------------------------------------------------------------
\* positions between the entry and the exit of a run body
RunBody == {"listing", "templating", "sending", "backoff", "rateWait",
            "logging", "updating"}

Settled == {"returned", "rejected", "threw", "skipped", "jobFailed", "invalidConfig"}

\* no settled call is waiting for its continuation.  The continuation of an
\* awaited call is a microtask: it runs before the next I/O or timer callback
\* is delivered, so every other step waits for it.
Quiet == \A c \in Callers : proc[c].pc \notin Settled

\* calls are numbered in their order of arrival
Arrives(c) == proc[c].pc = "idle" /\ (IF c = 1 THEN TRUE ELSE proc[c - 1].pc # "idle")

\* POST /api/send-emails (processEmails) or a processSingleEmail call arrives
CallDirect(c) ==
    /\ Quiet
    /\ Arrives(c)
    /\ \E kind \in {"all", "single"} : Commit(c, Enter(Machine(c), kind))

\* the setTimeout of a start() with RUN_ON_START fires: executeEmailJob
RunOnStartTimer(c) ==
    /\ Quiet
    /\ Arrives(c)
    /\ pending > 0
    /\ pending' = pending - 1
    /\ CommitCall(c, executeEmailJob(Machine(c), "scheduler"))
    /\ UNCHANGED <<cron, tasks, last, probe>>

\* a running task of the library fires: its callback awaits executeEmailJob
Tick(c) ==
    /\ Quiet
    /\ Arrives(c)
    /\ \E t \in 1..Len(tasks) : tasks[t].status = "running"
    /\ Commit(c, executeEmailJob(Machine(c), "scheduler"))

\* variant: triggerNow() calls processEmails() directly
TriggerNowUngated(c) ==
    /\ Quiet
    /\ Arrives(c)
    /\ Commit(c, Enter([Machine(c) EXCEPT !.h.origin = "manual"], "job"))

\* triggerNow(): await this.executeEmailJob()
TriggerNow(c) ==
    /\ Quiet
    /\ Arrives(c)
    /\ Commit(c, executeEmailJob(Machine(c), "manual"))

\* getProcessingStatus settled
JobStatus(c) ==
    /\ Quiet
    /\ proc[c].pc = "jobStatus"
    /\ \E auth \in {"ok", "throw"} : Commit(c, AfterStatus(Machine(c), auth))

\* what getRecipientData() can return to validateConfiguration
RecipientLists == {<<>>} \cup {getRecipientData(sh) : sh \in [Rows -> SheetStatuses]}

\* what validateConfiguration() reports, by the recipients it was given
Validations ==
    {[recipients |-> i.recipients, valid |-> validateConfiguration(i).valid] :
        i \in {j \in ValidationInputs(RecipientLists) : IsReading(j)}}

\* what validateConfiguration() can report to a job, Sheet1 being sh
JobValidations(sh) ==
    {v.valid : v \in {w \in Validations : w.recipients = getRecipientData(sh)}}

\* validateConfiguration settled
JobValidated(c) ==
    /\ Quiet
    /\ proc[c].pc = "jobValidating"
    /\ \E valid \in JobValidations(sheet) :
         Commit(c, AfterValidation(Machine(c), valid))

Listed(c) ==
    /\ Quiet
    /\ proc[c].pc = "listing"
    /\ \E out \in ListOutcomes :
         Commit(c, AfterList(Machine(c), out, getUnprocessedRecipients(sheet)))

Templated(c) ==
    /\ Quiet
    /\ proc[c].pc = "templating"
    /\ \E out \in TemplateReads, rows \in TemplateSheets :
         \E pick \in TemplatePicks(rows) :
             Commit(c, AfterTemplate(Machine(c), out, rows, pick))

\* sendEmail settles after d ms with outcome out
SendReturn(c) ==
    /\ Quiet
    /\ proc[c].pc = "sending"
    /\ \E out \in SendOutcomes, d \in SendDurations :
         Commit(c, AfterAttempt(
             [Machine(c) EXCEPT !.now = Max(now, proc[c].sendStart + d)], out))

\* the backoff timer fires: attempt++ and the next sendEmail call
BackoffDone(c) ==
    /\ Quiet
    /\ proc[c].pc = "backoff"
    /\ Commit(c, StartSend([Machine(c) EXCEPT !.now = Max(now, proc[c].wake),
                                              !.p.attempt = @ + 1]))

\* the rate-limit timer fires
RateWaitDone(c) ==
    /\ Quiet
    /\ proc[c].pc = "rateWait"
    /\ Commit(c, RateLimitDone([Machine(c) EXCEPT !.now = Max(now, proc[c].wake)]))

LogReturn(c) ==
    /\ Quiet
    /\ proc[c].pc = "logging"
    /\ \E out \in WriteOutcomes : Commit(c, AfterLog(Machine(c), out))

UpdateReturn(c) ==
    /\ Quiet
    /\ proc[c].pc = "updating"
    /\ \E out \in WriteOutcomes : Commit(c, AfterUpdate(Machine(c), out))

\* variant: an error of the job's calls leaves executeEmailJob
JobCatchRethrows(p) ==
    IF p.kind = "job" /\ p.pc \in {"rejected", "threw", "jobFailed"}
    THEN "jobThrew" ELSE "done"

\* executeEmailJob: catch (error) { this.logger.error(...) }; the call ends
\* without an exception whatever its calls did, as a route's handler does
JobCatch(p) == "done"

\* the awaiting caller's continuation: the route answers, or executeEmailJob
\* logs the result and calls updateNextRunTime(), or logs the caught error
Ack(c) ==
    /\ proc[c].pc \in Settled
    /\ proc' = [proc EXCEPT ![c] = [IdleProc EXCEPT !.pc = JobCatch(proc[c])]]
    /\ hist' = [hist EXCEPT ![c] = NoHist]
    /\ cron' = IF proc[c].kind = "job" /\ proc[c].pc = "returned"
               THEN updateNextRunTime(cron) ELSE cron
    /\ UNCHANGED <<processing, lastSentTime, sheet, tasks, pending, last, probe>>

\* variant: a control call drops the runs that are in flight
CommitControlAbort(op, arg, k) ==
    /\ cron' = k.cron
    /\ tasks' = k.tasks
    /\ pending' = k.pending
    /\ last' = [op |-> op, arg |-> arg, ret |-> k.ret, threw |-> k.threw, before |-> cron,
                tasksBefore |-> tasks, lib |-> k.lib,
                recorded |-> (last.op = "updateInterval" /\ ~last.before.active)]
    /\ proc' = [c \in Callers |->
                   IF proc[c].pc \in RunBody /\ proc[c].kind = "job"
                   THEN [IdleProc EXCEPT !.pc = "done"] ELSE proc[c]]
    /\ hist' = [c \in Callers |->
                   IF proc[c].pc \in RunBody /\ proc[c].kind = "job"
                   THEN NoHist ELSE hist[c]]
    /\ UNCHANGED <<processing, lastSentTime, sheet, probe>>

\* a control call ends in k
CommitControl(op, arg, k) ==
    /\ cron' = k.cron
    /\ tasks' = k.tasks
    /\ pending' = k.pending
    /\ last' = [op |-> op, arg |-> arg, ret |-> k.ret, threw |-> k.threw, before |-> cron,
                tasksBefore |-> tasks, lib |-> k.lib,
                recorded |-> (last.op = "updateInterval" /\ ~last.before.active)]
    /\ UNCHANGED <<processing, lastSentTime, sheet, proc, hist, probe>>

\* POST /cronjob/start with request body `body`:
\* const { interval = 30 } = req.body; start(interval)
StartCall(body, runOnStart) ==
    /\ Quiet
    /\ Len(tasks) < MaxTasks
    /\ LET interval == IF body = <<>> THEN DefaultInterval ELSE body[1]
       IN \E out \in ScheduleOutcomes(createCronExpression(interval)) :
            CommitControl("start", body, start(Control, interval, out, runOnStart))

StartRoute == \E body \in Bodies, runOnStart \in BOOLEAN : StartCall(body, runOnStart)

\* POST /cronjob/stop, and the stop() of the shutdown handler
StopRoute ==
    /\ Quiet
    /\ \E out \in CancelOutcomes : CommitControl("stop", <<>>, stop(Control, out))

\* destroy(): this.stop()
Destroy ==
    /\ Quiet
    /\ \E out \in CancelOutcomes : CommitControl("destroy", <<>>, stop(Control, out))

\* if (!interval || interval < 1) return res.status(400)
IsRejectedInterval(body) == body = <<>> \/ body[1] = 0 \/ body[1] < 1

\* PUT /cronjob/interval with request body `body`: the body is validated,
\* then updateInterval(interval)
IntervalCall(body, runOnStart) ==
    /\ Quiet
    /\ Len(tasks) < MaxTasks
    /\ IF IsRejectedInterval(body)
       THEN CommitControl("rejected", body, Control)
       ELSE \E cancel \in CancelOutcomes,
               out \in ScheduleOutcomes(createCronExpression(body[1])) :
              CommitControl("updateInterval", body,
                  updateInterval(Control, body[1], cancel, out, runOnStart))

IntervalRoute == \E body \in Bodies, runOnStart \in BOOLEAN : IntervalCall(body, runOnStart)

Next ==
    \E c \in Callers :
        \/ CallDirect(c)
        \/ TriggerNow(c)
        \/ JobStatus(c)
        \/ JobValidated(c)
        \/ Listed(c)
        \/ Templated(c)
        \/ SendReturn(c)
        \/ BackoffDone(c)
        \/ RateWaitDone(c)
        \/ LogReturn(c)
        \/ UpdateReturn(c)
        \/ Ack(c)

Spec == Init /\ [][Next]_vars

\* ---- the scheduler with its jobs -----------------------------------------
\* every recipient of Sheet1 has been sent to: a job that reaches
\* processEmails() returns without sending
InitCron == Init /\ sheet = [r \in Rows |-> "sent"]

\* the executeEmailJob calls followed here
Jobs == 1..MaxJobs

NextCron ==
    \/ StartRoute
    \/ StopRoute
    \/ IntervalRoute
    \/ Destroy
    \/ \E c \in Jobs :
        \/ Tick(c)
        \/ TriggerNow(c)
        \/ RunOnStartTimer(c)
        \/ JobStatus(c)
        \/ JobValidated(c)
        \/ Listed(c)
        \/ Ack(c)

SpecCron == InitCron /\ [][NextCron]_vars

\* ---- control calls during a run -----------------------------------------
\* the scheduler is started once, with the default request and RUN_ON_START
\* unset; a tick starts a job; one stop(), destroy() or updateInterval() call
\* arrives while that job is in processEmails()
FirstJob == {1}

TickRunning ==
    \E c \in FirstJob : proc[c].pc \in RunBody /\ hist[c].origin = "scheduler"

StartOnce == tasks = <<>> /\ StartCall(<<>>, FALSE)

StopDuringRun == TickRunning /\ last.op = "start" /\ StopRoute

DestroyDuringRun == TickRunning /\ last.op = "start" /\ Destroy

IntervalDuringRun ==
    /\ TickRunning
    /\ last.op = "start"
    /\ \E n \in Intervals : IntervalCall(<<n>>, FALSE)

NextStop ==
    \/ StartOnce
    \/ StopDuringRun
    \/ DestroyDuringRun
    \/ IntervalDuringRun
    \/ \E c \in FirstJob :
        \/ Tick(c)
        \/ JobStatus(c)
        \/ JobValidated(c)
        \/ Listed(c)
        \/ Templated(c)
        \/ SendReturn(c)
        \/ BackoffDone(c)
        \/ RateWaitDone(c)
        \/ LogReturn(c)
        \/ UpdateReturn(c)
        \/ Ack(c)

SpecStop == Init /\ [][NextStop]_vars

\* ---- the read-only calls --------------------------------------------------
\* the identifiers personalizeContent replaces
Recognized == {"name", "keyword", "address", "website", "email", "company"}

\* the identifiers a template is written with: the recognized ones, a
\* property of the recipient object that is not one of them, and one that is
\* neither
Identifiers == Recognized \cup {"status", "unknown"}

Pieces == {Lit("Hi"), Lit("\n")} \cup {Ph(id) : id \in Identifiers}

Texts == UNION {[1..n -> Pieces] : n \in 1..MaxTokens}

PlaceholderTemplates == {[subject |-> s, content |-> c] : s, c \in Texts}

\* recipients as getRecipientData builds them from a row of Sheet1: a cell
\* that is missing or empty gives ''; a recipient is kept when one of its
\* addresses is valid
TextRecipients ==
    {[keyword |-> k, name |-> n, address |-> "", website |-> "example.com",
      primaryEmail |-> e, status |-> "new",
      additionalEmails |-> <<"office@example.com">>, rowIndex |-> 2,
      allEmails |-> IF e = "" THEN <<"office@example.com">>
                    ELSE <<e, "office@example.com">>] :
        k \in {"", "seo"}, n \in {"", "Ana"}, e \in {"", "ana@example.com"}}

Question(fn, arg) == [fn |-> fn, arg |-> arg, out |-> <<>>, threw |-> FALSE, done |-> FALSE]

RenderQuestions ==
    {Question(fn, [template |-> t, recipient |-> r]) :
        fn \in {"prepareEmailBatch", "personalizeContent"},
        t \in PlaceholderTemplates, r \in TextRecipients}

ValidationQuestions ==
    {Question("validateConfiguration", i) :
        i \in {j \in ValidationInputs(RecipientLists) : IsReading(j)}}

\* the intervals a scheduler is started with: divisors of the hour, a
\* sub-hour interval that is none, and intervals of an hour and more
CadenceIntervals == {15, 30, 45, 90, 300}

\* minute t (counted from a midnight) matches the expression: `*/s` in the
\* minute (hour) field selects the minutes (hours) of the hour (day) that are
\* multiples of s, and `0` in the minute field selects the full hour
Matches(expr, t) ==
    IF expr.field = "minute"
    THEN (t % 60) % expr.step = 0
    ELSE t % 60 = 0 /\ ((t \div 60) % 24) % expr.step = 0

\* the first minute after t at which the trigger registered with expr fires
NextFiring(expr, t) ==
    LET later == {u \in (t + 1)..(t + 24 * 60) : Matches(expr, u)}
    IN CHOOSE u \in later : \A v \in later : u <= v

\* the trigger of start(interval) has just fired at minute `at` of a day
CadenceQuestions ==
    {Question("nextFiring", [interval |-> q[1], at |-> q[2]]) :
        q \in {r \in CadenceIntervals \X (0..(24 * 60 - 1)) :
                  Matches(createCronExpression(r[1]), r[2])}}

\* a call of one of the functions, with its arguments, is about to be made
InitQuery ==
    /\ InitBase
    /\ sheet = [r \in Rows |-> "new"]
    /\ probe \in RenderQuestions \/ probe \in ValidationQuestions
                               \/ probe \in CadenceQuestions

Answer(out) ==
    /\ ~probe.done
    /\ probe' = [probe EXCEPT !.out = out, !.done = TRUE]
    /\ UNCHANGED <<processing, lastSentTime, sheet, proc, hist, cron, tasks, pending, last>>

\* prepareEmailBatch([recipient], template)
Prepare ==
    /\ probe.fn = "prepareEmailBatch"
    /\ Answer(prepareEmailBatch(<<probe.arg.recipient>>, probe.arg.template)[1])

Personalize ==
    /\ probe.fn = "personalizeContent"
    /\ Answer(personalizeContent(probe.arg.template, probe.arg.recipient))

Validate ==
    /\ probe.fn = "validateConfiguration"
    /\ Answer(validateConfiguration(probe.arg))

\* the trigger registered by start(interval) fires again
Fire ==
    /\ probe.fn = "nextFiring"
    /\ Answer(NextFiring(createCronExpression(probe.arg.interval), probe.arg.at))

NextQuery == Prepare \/ Personalize \/ Validate \/ Fire

SpecQuery == InitQuery /\ [][NextQuery]_vars

\* ---- EmailService.getEmailPreview ----------------------------------------
SampleRecipient ==
    [name |-> "Vi du", keyword |-> "tu khoa mau", address |-> "dia chi mau",
     website |-> "website-mau.com", primaryEmail |-> "email@example.com"]

NoRecipient == <<>>

ErrorPreview ==
    [subject |-> <<Lit("Error loading preview")>>,
     content |-> <<Lit("Unable to load email preview")>>,
     recipient |-> NoRecipient]

\* what getRecipientData() returns to the preview: no recipient, or a first
\* recipient without a name
PreviewLists ==
    {<<>>} \cup {<<r>> : r \in {t \in TextRecipients :
                                  t.name = "" /\ t.keyword # "" /\ t.primaryEmail # ""}}

\* variant: no try/catch around the two Store reads
getEmailPreviewRethrows(read, rows, pick, list, recipients) ==
    LET template == getEmailTemplate(rows, pick)
        sampleRecipient == IF Len(recipients) > 0 THEN recipients[1] ELSE SampleRecipient
        personalizedTemplate == personalizeContent(template, sampleRecipient)
    IN IF read = "throw" \/ list = "throw"
       THEN [out |-> ErrorPreview, threw |-> TRUE]
       ELSE [out |-> [subject |-> personalizedTemplate.subject,
                      content |-> personalizedTemplate.content,
                      recipient |-> sampleRecipient],
             threw |-> FALSE]

\* getEmailPreview(): read and list are what getEmailTemplate() and
\* getRecipientData() do
getEmailPreview(read, rows, pick, list, recipients) ==
    LET template == getEmailTemplate(rows, pick)
        sampleRecipient == IF Len(recipients) > 0 THEN recipients[1] ELSE SampleRecipient
        personalizedTemplate == personalizeContent(template, sampleRecipient)
    IN IF read = "throw" \/ list = "throw"
       THEN [out |-> ErrorPreview, threw |-> FALSE]
       ELSE [out |-> [subject |-> personalizedTemplate.subject,
                      content |-> personalizedTemplate.content,
                      recipient |-> sampleRecipient],
             threw |-> FALSE]

\* the previews the Store's answers can lead to
Previews ==
    {[read |-> i.read, list |-> i.list,
      preview |-> getEmailPreview(i.read, i.rows, i.pick, i.list, i.recipients)] :
        i \in {j \in [read : TemplateReads, list : ListOutcomes,
                      recipients : PreviewLists, rows : TemplateSheets,
                      pick : TemplateRows \cup {Null}] : IsReading(j)}}

\* GET /api/email-preview; the flag is noted as the call found it
Preview ==
    /\ Quiet
    /\ \E p \in Previews :
         probe' = [fn |-> "getEmailPreview",
                   arg |-> [read |-> p.read, list |-> p.list, processing |-> processing],
                   out |-> p.preview.out, threw |-> p.preview.threw, done |-> TRUE]
    /\ UNCHANGED <<processing, lastSentTime, sheet, proc, hist, cron, tasks, pending, last>>

\* previews during one processEmails() call
NextPreview ==
    \/ Preview
    \/ \E c \in FirstJob :
        \/ CallDirect(c)
        \/ Listed(c)
        \/ Templated(c)
        \/ SendReturn(c)
        \/ BackoffDone(c)
        \/ RateWaitDone(c)
        \/ LogReturn(c)
        \/ UpdateReturn(c)
        \/ Ack(c)

SpecPreview == Init /\ [][NextPreview]_vars

\* ---- one processEmails() call whose awaited calls all settle -------------
NextRun ==
    \E c \in FirstJob :
        \/ CallDirect(c)
        \/ Listed(c)
        \/ Templated(c)
        \/ SendReturn(c)
        \/ BackoffDone(c)
        \/ RateWaitDone(c)
        \/ LogReturn(c)
        \/ UpdateReturn(c)
        \/ Ack(c)

\* every Store and Transport call the run awaits settles, every timer it
\* sets fires, and the continuation of a settled await is run
RunFairness ==
    \A c \in FirstJob :
        /\ WF_vars(Listed(c)) /\ WF_vars(Templated(c)) /\ WF_vars(SendReturn(c))
        /\ WF_vars(BackoffDone(c)) /\ WF_vars(RateWaitDone(c))
        /\ WF_vars(LogReturn(c)) /\ WF_vars(UpdateReturn(c)) /\ WF_vars(Ack(c))

SpecRun == Init /\ [][NextRun]_vars /\ RunFairness

\* ---- vocabulary of the properties ---------------------------------------
Running(c) == proc[c].pc \in RunBody

InFlight == Cardinality({c \in Callers : proc[c].pc = "sending"})

\* call c invokes processEmails()/processSingleEmail() in this step
Invokes(c) ==
    \/ proc[c].pc = "idle" /\ proc'[c].pc \notin {"idle", "jobStatus"}
    \/ proc[c].pc = "jobValidating" /\ proc'[c].pc \notin {"jobValidating", "invalidConfig"}

\* the retry loop of email i of call c is over
Finished(c, i) ==
    \/ proc[c].idx > i
    \/ proc[c].idx = i /\ proc[c].pc \in {"rateWait", "logging", "updating", "returned"}

EmailsOf(c) == 1..Len(proc[c].emails)

AllFailed(c, i) == \A k \in 1..Len(hist[c].outcomes[i]) : ~hist[c].outcomes[i][k]

\* the unsent recipients' ids in the order the Store returns them
StoreOrder ==
    LET u == getUnprocessedRecipients(sheet) IN [i \in 1..Len(u) |-> u[i].rowIndex]

IsPrefix(a, b) == Len(a) <= Len(b) /\ \A i \in 1..Len(a) : a[i] = b[i]

CountStatus(details, st) == Cardinality({i \in 1..Len(details) : details[i].status = st})

\* ---- C1 -----------------------------------------------------------------
\* C1: a call made while another run body is between its entry and its exit
\* is rejected ('already in progress') having made no sendEmail call and no
\* Store call; a rejected call has made none in any state; at most one run
\* body is between its entry and its exit.
C1_SingleFlight ==
    /\ [](/\ \A c \in Callers :
               proc[c].pc = "rejected" =>
                   /\ hist[c].sends = 0 /\ hist[c].storeCalls = 0
                   /\ proc[c].ret = "Email processing already in progress"
          /\ Cardinality({c \in Callers : Running(c)}) <= 1)
    /\ [][\A c \in Callers :
             (Invokes(c) /\ \E d \in Callers \ {c} : Running(d)) =>
                 proc'[c].pc = "rejected"]_vars

C1_Witness ==
    \E c, d \in Callers :
        /\ proc[c].pc = "rejected" /\ proc[d].pc = "sending"
        /\ hist[d].sends >= 1 /\ hist[c].sends = 0

\* ---- C2 -----------------------------------------------------------------
\* C2: when a call that acquired the flag finishes (summary, empty return,
\* invalid template, Store error) the flag is false, and a call made when no
\* run body is active is accepted.
C2_GuardReleased ==
    /\ [](\A c \in Callers : proc[c].pc \in {"returned", "threw"} => ~processing)
    /\ [][\A c \in Callers :
             (Invokes(c) /\ \A d \in Callers \ {c} : ~Running(d)) =>
                 proc'[c].pc = "listing" /\ processing']_vars

C2_Witness ==
    \E c, d \in Callers :
        /\ proc[c].pc = "threw" /\ proc[c].ret = "Invalid email template"
        /\ proc[d].pc = "done"
        /\ ~processing

\* ---- C3 -----------------------------------------------------------------
\* C3: at most one sendEmail call is in flight, and while a send for a
\* recipient is in flight every recipient started before it has its terminal
\* detail entry.
C3_SequentialSending ==
    /\ InFlight <= 1
    /\ \A c \in Callers :
         proc[c].pc = "sending" =>
             LET ord == hist[c].order
                 det == proc[c].results.details
             IN /\ Len(det) = Len(ord) - 1
                /\ \A j \in 1..Len(det) :
                     det[j].recipientId = ord[j] /\ det[j].status \in {"sent", "failed"}

C3_Witness ==
    \E c, d \in Callers :
        /\ proc[c].pc = "sending" /\ Len(hist[c].order) = 2
        /\ proc[d].pc = "jobValidating"

\* ---- C4 -----------------------------------------------------------------
\* C4: a summary returned for n >= 1 recipients has one detail entry per
\* recipient, each 'sent' or 'failed', and sent, failed and total count them.
C4_OneTerminalStatus ==
    \A c \in Callers :
        (proc[c].pc = "returned" /\ Len(proc[c].recipients) >= 1) =>
            LET r == proc[c].ret
                n == Len(proc[c].recipients)
            IN /\ Len(r.details) = n
               /\ \A i \in 1..n :
                    /\ r.details[i].recipientId = proc[c].recipients[i].rowIndex
                    /\ r.details[i].status \in {"sent", "failed"}
               /\ r.sent = CountStatus(r.details, "sent")
               /\ r.failed = CountStatus(r.details, "failed")
               /\ r.sent + r.failed = r.total
               /\ r.total = n

C4_Witness ==
    \E c \in Callers :
        /\ proc[c].pc = "returned" /\ Len(proc[c].recipients) = 2
        /\ proc[c].ret.sent = 1 /\ proc[c].ret.failed = 1

\* ---- C5 -----------------------------------------------------------------
\* C5: a recipient whose every send failed got exactly maxRetryAttempts (3)
\* sends and a 'failed' entry with the last attempt's error and attempts = 3.
C5_RetryExhaustion ==
    \A c \in Callers : \A i \in EmailsOf(c) :
        (Finished(c, i) /\ AllFailed(c, i)) =>
            LET d == proc[c].results.details[i]
            IN /\ hist[c].sendCount[i] = 3
               /\ Len(hist[c].outcomes[i]) = 3
               /\ d.status = "failed"
               /\ d.error \in {<<"fail", 3>>, <<"throw", 3>>}
               /\ d.attempts = 3

C5_Witness ==
    \E c \in Callers :
        /\ proc[c].pc = "returned" /\ Len(proc[c].emails) >= 1
        /\ AllFailed(c, 1) /\ proc[c].ret.details[1].error = <<"throw", 3>>

\* ---- C6 -----------------------------------------------------------------
\* C6: a recipient whose first send failed and second succeeded got exactly
\* two sends and one backoff, and a 'sent' entry with attempt = 2 and the
\* message id of the second call.
C6_RetrySuccess ==
    \A c \in Callers : \A i \in EmailsOf(c) :
        (Finished(c, i) /\ hist[c].outcomes[i] = <<FALSE, TRUE>>) =>
            LET d == proc[c].results.details[i]
            IN /\ hist[c].sendCount[i] = 2
               /\ Len(hist[c].backoffs[i]) = 1
               /\ d.status = "sent"
               /\ d.attempt = 2
               /\ d.messageId = <<"id", 2>>

C6_Witness ==
    \E c \in Callers :
        /\ proc[c].pc = "returned" /\ Len(proc[c].emails) >= 1
        /\ hist[c].outcomes[1] = <<FALSE, TRUE>>
        /\ proc[c].ret.details[1].status = "sent"

\* ---- C7 -----------------------------------------------------------------
\* C7: the backoff after failed attempt k < 3 is 2^k seconds and precedes
\* attempt k+1; none follows a success or the third failure; an always
\* failing recipient waits 2 + 4 seconds in all.
C7_BackoffPlacement ==
    \A c \in Callers : \A i \in EmailsOf(c) :
        LET out == hist[c].outcomes[i]
            b == hist[c].backoffs[i]
            after == {k \in 1..Len(out) : ~out[k] /\ k < 3}
        IN /\ Len(b) = Cardinality(after)
           /\ \A k \in 1..Len(b) : k \in after /\ b[k] = <<k, Pow2(k) * 1000>>
           /\ (proc[c].pc = "sending" /\ proc[c].idx = i /\ hist[c].sendCount[i] >= 2) =>
                  hist[c].waited >= Pow2(hist[c].sendCount[i] - 1) * 1000
           /\ (Finished(c, i) /\ AllFailed(c, i)) =>
                  b = <<(<<1, 2000>>), (<<2, 4000>>)>>

C7_Witness ==
    \E c \in Callers :
        /\ proc[c].pc = "sending" /\ hist[c].sendCount[1] = 3
        /\ hist[c].waited = 4000
        /\ hist[c].backoffs[1] = <<(<<1, 2000>>), (<<2, 4000>>)>>

\* ---- C8 -----------------------------------------------------------------
\* C8: in a run whose recipients each succeed on the first attempt, any two
\* consecutive sendEmail invocations are at least the minimum gap (1000 ms)
\* apart, whatever lastSentTime was when the run began.
C8_RateLimit ==
    \A c \in Callers :
        (/\ proc[c].pc = "sending"
         /\ hist[c].gap # -1
         /\ hist[c].sendCount[proc[c].idx] = 1
         /\ \A j \in 1..(proc[c].idx - 1) : hist[c].outcomes[j] = <<TRUE>>) =>
            hist[c].gap >= 1000

\* ---- C9 -----------------------------------------------------------------
\* C9: recipients are started in Store order, a recipient's retries all come
\* before the next recipient's first send, and details has the Store order.
C9_Ordering ==
    \A c \in Callers :
        proc[c].pc \in (RunBody \cup {"returned"}) \ {"listing"} =>
            LET batch == IF proc[c].kind = "single" /\ Len(StoreOrder) >= 1
                         THEN <<StoreOrder[1]>> ELSE StoreOrder
                ids == [j \in 1..Len(proc[c].results.details) |->
                            proc[c].results.details[j].recipientId]
            IN /\ IsPrefix(hist[c].order, batch)
               /\ IsPrefix(ids, batch)
               /\ (proc[c].pc = "returned" /\ Len(proc[c].emails) >= 1) => ids = batch

C9_Witness ==
    \E c \in Callers :
        /\ proc[c].pc = "sending" /\ hist[c].order = <<2, 3>>
        /\ hist[c].sendCount[1] = 3 /\ hist[c].sendCount[2] = 2

\* ---- C10 ----------------------------------------------------------------
\* C10: failed or throwing sends never make the call reject; every recipient
\* of the batch is attempted; an entry is 'failed' exactly when all of that
\* recipient's own sends failed.
C10_SendErrorsContained ==
    \A c \in Callers :
        /\ hist[c].sends >= 1 => proc[c].pc \in RunBody \cup {"returned"}
        /\ (proc[c].pc = "returned" /\ Len(proc[c].emails) >= 1) =>
               \A i \in EmailsOf(c) :
                   /\ hist[c].sendCount[i] >= 1
                   /\ proc[c].ret.details[i].status =
                          IF AllFailed(c, i) THEN "failed" ELSE "sent"

C10_Witness ==
    \E c \in Callers :
        /\ proc[c].pc = "returned" /\ Len(proc[c].emails) = 2
        /\ AllFailed(c, 1) /\ proc[c].ret.details[1].status = "failed"
        /\ proc[c].ret.details[2].status = "sent"
        /\ proc[c].ret.details[2].attempt = 1

\* ---- C11 ----------------------------------------------------------------
\* C11: a processEmails() call that got an empty list of unsent recipients
\* returns sent 0, failed 0 and total 0, has made no sendEmail call, and the
\* flag is false.
C11_EmptyCase ==
    \A c \in Callers :
        (/\ proc[c].pc = "returned" /\ proc[c].kind \in {"all", "job"}
         /\ Len(getUnprocessedRecipients(sheet)) = 0) =>
            LET r == proc[c].ret
            IN /\ r.sent = 0 /\ r.failed = 0
               /\ "total" \in DOMAIN r /\ r.total = 0
               /\ hist[c].sends = 0
               /\ ~processing

\* ---- C12 ----------------------------------------------------------------
\* C12: when Sheet2 holds no valid template row (no rows, or only invalid
\* ones) processEmails() fails with a configuration error, sendEmail is not
\* called and no result-log or status write is issued.
C12_ConfigurationGate ==
    \A c \in Callers :
        (proc[c].kind \in {"all", "job"} /\ hist[c].noValidRows) =>
            /\ proc[c].pc = "threw" /\ proc[c].ret = "Invalid email template"
            /\ hist[c].sends = 0
            /\ hist[c].logged = <<>> /\ hist[c].updated = <<>>

\* ---- C13 ----------------------------------------------------------------
\* C13: when the Store throws while listing the unsent recipients or fetching
\* the template, processEmails() rejects with that error, no sendEmail call
\* and no write was made, and the flag is false after the rejection.
C13_SetupErrorsPropagate ==
    \A c \in Callers :
        (proc[c].kind \in {"all", "job"} /\ hist[c].setupError # Null) =>
            /\ proc[c].pc = "threw" /\ proc[c].ret = hist[c].setupError
            /\ hist[c].sends = 0 /\ hist[c].logged = <<>>
            /\ ~processing

C13_Witness ==
    \E c, d \in Callers :
        /\ proc[c].pc = "threw" /\ proc[c].kind = "job"
        /\ hist[c].setupError = "Failed to read email template"
        /\ Len(proc[c].recipients) = 2 /\ hist[c].sends = 0
        /\ proc[d].pc = "done" /\ ~processing

\* ---- C14 ----------------------------------------------------------------
\* the ids of the detail entries, in order
DetailIds(c) ==
    [j \in 1..Len(proc[c].results.details) |-> proc[c].results.details[j].recipientId]

NotThrown(c, id) == id \notin hist[c].threw

\* C14: whatever the result-log append or the status update of a recipient
\* does (true, false, throw), the counts and the detail entries stay as they
\* were, the call returns its summary, the result-log append of every later
\* recipient is issued, and so is the status update of every recipient whose
\* own append did not throw.
C14_PersistenceContained ==
    /\ [](\A c \in Callers :
            (proc[c].pc = "returned" /\ Len(proc[c].emails) >= 1) =>
                /\ proc[c].ret.details = proc[c].results.details
                /\ proc[c].ret.sent = proc[c].results.sent
                /\ proc[c].ret.failed = proc[c].results.failed
                /\ hist[c].logged = DetailIds(c)
                /\ hist[c].updated = SelectSeq(DetailIds(c), LAMBDA id : NotThrown(c, id)))
    /\ [][\A c \in Callers :
            proc[c].pc \in {"logging", "updating"} =>
                /\ proc'[c].results = proc[c].results
                /\ proc'[c].pc \in {"logging", "updating", "returned"}
                /\ proc'[c].k >= proc[c].k]_vars

C14_Witness ==
    \E c \in Callers :
        /\ proc[c].pc = "returned" /\ proc[c].kind = "all"
        /\ hist[c].writeFailed /\ hist[c].threw = {2}
        /\ hist[c].logged = <<2, 3>> /\ hist[c].updated = <<3>>
        /\ proc[c].ret.sent = 1 /\ proc[c].ret.failed = 1

RunningTasks(ts) == {t \in 1..Len(ts) : ts[t].status = "running"}

\* the interval the last start or updateInterval call was given
LastInterval == IF last.arg = <<>> THEN DefaultInterval ELSE last.arg[1]

\* every library call of the last control call returned
LibraryWorked == \A i \in 1..Len(last.lib) : last.lib[i][2] = "ok"

Unchanged == cron = last.before /\ tasks = last.tasksBefore

\* ---- C16 ----------------------------------------------------------------
\* C16: for an interval n >= 1 and library calls that return: start(n) on an
\* inactive scheduler returns true, isActive() is true and getInterval() is
\* n; start(m) on an active one returns false and leaves the flag, the
\* interval and the registered trigger as they were; stop() on an active one
\* returns true and isActive() is false; stop() on an inactive one returns
\* false and changes nothing.
C16_StateMachine ==
    /\ (last.op = "start" /\ ~last.before.active /\ LastInterval >= 1 /\ LibraryWorked) =>
           /\ last.ret /\ cron.active /\ cron.interval = LastInterval
           /\ RunningTasks(tasks) = {cron.currentJob}
    /\ (last.op = "start" /\ last.before.active) =>
           ~last.ret /\ cron.active /\ Unchanged
    /\ (last.op = "stop" /\ last.before.active /\ LibraryWorked) =>
           last.ret /\ ~cron.active /\ RunningTasks(tasks) = {}
    /\ (last.op = "stop" /\ ~last.before.active) =>
           ~last.ret /\ ~cron.active /\ Unchanged

C16_Witness ==
    /\ last.op = "start" /\ last.before.active /\ ~last.ret
    /\ last.arg = <<90>> /\ cron.interval = 30
    /\ Len(tasks) = 2 /\ RunningTasks(tasks) = {2}

\* ---- C17 ----------------------------------------------------------------
\* C17: updateInterval(m), m >= 1, on an active scheduler, with library calls
\* that return, returns true and leaves the scheduler active with
\* getInterval() = m and exactly one registered trigger, a new one; the old
\* trigger was cancelled before the new one was registered, so at no time are
\* both able to fire.
C17_UpdateWhileActive ==
    (last.op = "updateInterval" /\ last.before.active /\ LibraryWorked) =>
        /\ last.ret /\ cron.active /\ cron.interval = LastInterval
        /\ RunningTasks(tasks) = {cron.currentJob}
        /\ cron.currentJob \notin DOMAIN last.tasksBefore
        /\ tasks[last.before.currentJob].status = "destroyed"
        /\ last.lib = <<(<<"cancel", "ok">>), (<<"schedule", "ok">>)>>

C17_Witness ==
    /\ last.op = "updateInterval" /\ last.before.active /\ last.ret
    /\ last.before.interval = 30 /\ cron.interval = 90
    /\ last.before.currentJob = 1 /\ cron.currentJob = 2
    /\ proc[1].pc = "jobValidating"

\* ---- C18 ----------------------------------------------------------------
\* C18: whatever start, stop, updateInterval, destroy, tick and triggerNow
\* events have happened, failed calls and throwing library calls included, at
\* most one trigger created by the scheduler is registered and able to fire.
C18_AtMostOneTrigger == Cardinality(RunningTasks(tasks)) <= 1

C18_Witness ==
    /\ last.op = "updateInterval" /\ ~last.ret
    /\ last.lib = <<(<<"cancel", "stopThrows">>)>>
    /\ Len(tasks) = 2 /\ RunningTasks(tasks) = {2}
    /\ proc[1].pc = "done"

\* ---- C19 ----------------------------------------------------------------
\* C19: getInterval() >= 1 in every reachable state, whatever integers the
\* /cronjob/start and /cronjob/interval requests carry.
C19_IntervalLowerBound == cron.interval >= 1

\* ---- C20 ----------------------------------------------------------------
\* C20: updateInterval(n) on an inactive scheduler returns true, sets
\* getInterval() to n, registers no trigger and leaves isActive() false and
\* getNextRun() null; a start() without an interval that follows it runs with
\* the recorded n.
C20_UpdateWhileInactive ==
    /\ (last.op = "updateInterval" /\ ~last.before.active) =>
           /\ last.ret /\ cron.interval = LastInterval
           /\ tasks = last.tasksBefore
           /\ ~cron.active /\ cron.nextRunTime = <<>>
    /\ (last.op = "start" /\ last.arg = <<>> /\ last.recorded /\ last.ret) =>
           cron.interval = last.before.interval

\* ---- C21 ----------------------------------------------------------------
\* the library calls of the last control call that threw
LibraryThrows == {i \in 1..Len(last.lib) : last.lib[i][2] # "ok"}

\* C21: whatever the scheduler's state and whatever the library calls did,
\* the last start(), stop() or updateInterval() call returned a boolean and
\* raised no exception to its caller.
C21_ControlCallsNeverThrow ==
    last.op \in {"start", "stop", "updateInterval"} =>
        /\ ~last.threw
        /\ last.ret \in BOOLEAN
        /\ LibraryThrows # {} => ~last.ret

\* an updateInterval() whose cancellation of the old trigger threw has
\* returned false
C21_Witness ==
    /\ last.op = "updateInterval"
    /\ LibraryThrows = {1}
    /\ ~last.threw
    /\ ~last.ret

\* ---- C22 ----------------------------------------------------------------
\* job c leaves its getProcessingStatus() await in this step
StatusSettles(c) == proc[c].pc = "jobStatus" /\ proc'[c].pc # "jobStatus"

\* C22: an executeEmailJob that read the processing flag as true goes
\* straight to its return: it calls neither validateConfiguration() nor
\* processEmails(), has made no Store call and no sendEmail call, leaves the
\* processing flag and the last-send time as they were, and does not throw.
C22_TickSkipped ==
    /\ [](\A c \in Callers :
            proc[c].kind = "job" /\ proc[c].status =>
                /\ proc[c].pc \in {"jobStatus", "skipped"}
                /\ hist[c].validation = "none"
                /\ hist[c].sends = 0 /\ hist[c].storeCalls = 0)
    /\ [][\A c \in Callers :
            StatusSettles(c) /\ proc[c].status =>
                /\ proc'[c].pc = "skipped"
                /\ processing' = processing
                /\ lastSentTime' = lastSentTime]_vars

\* a job was skipped while another call's run holds the flag
C22_Witness ==
    \E c, d \in Callers :
        /\ proc[c].pc = "skipped" /\ proc[c].status
        /\ Running(d) /\ processing

\* ---- C23 ----------------------------------------------------------------
\* C23: a job whose validateConfiguration() reported valid = false has not
\* invoked processEmails(), has made none of its Store calls and no sendEmail
\* call; a job that is in processEmails() or has left it got valid = true
\* from the validation before.
C23_ValidationGate ==
    \A c \in Callers :
        proc[c].kind = "job" =>
            /\ hist[c].validation = "invalid" =>
                   /\ proc[c].pc = "invalidConfig"
                   /\ hist[c].sends = 0 /\ hist[c].storeCalls = 0
            /\ proc[c].pc = "invalidConfig" => hist[c].validation = "invalid"
            /\ Running(c) \/ proc[c].pc \in {"returned", "rejected", "threw"} =>
                   hist[c].validation = "valid"

\* one job stopped at an invalid configuration while no run was in progress,
\* and another job, validated, is sending
C23_Witness ==
    \E c, d \in Callers :
        /\ proc[c].pc = "invalidConfig" /\ proc[c].kind = "job" /\ ~proc[c].status
        /\ proc[d].kind = "job" /\ proc[d].pc = "sending" /\ hist[d].validation = "valid"

\* ---- C24 ----------------------------------------------------------------
\* job c was started by triggerNow()
Manual(c) == proc[c].kind = "job" /\ hist[c].origin = "manual"

\* the active flag, the interval and the registered trigger
Registration == <<cron.active, cron.interval, cron.currentJob, tasks>>

\* C24: a job started by triggerNow(), with the scheduler active or not,
\* starts at the getProcessingStatus() check of executeEmailJob like a tick's
\* job, is skipped when it read the flag as true, reaches processEmails()
\* only through a validation that reported valid = true, and none of its
\* steps changes the scheduler's active flag, interval or registered trigger.
C24_ManualTrigger ==
    /\ [](\A c \in Callers :
            Manual(c) =>
                /\ proc[c].status => proc[c].pc \in {"jobStatus", "skipped"}
                /\ hist[c].validation = "invalid" => proc[c].pc = "invalidConfig"
                /\ Running(c) \/ proc[c].pc \in {"returned", "rejected", "threw"} =>
                       hist[c].validation = "valid")
    /\ [][\A c \in Callers :
            /\ hist[c].origin = "none" /\ hist'[c].origin = "manual" =>
                   /\ proc'[c].pc = "jobStatus"
                   /\ proc'[c].status = processing
            /\ (Manual(c) \/ hist'[c].origin = "manual") /\ proc'[c] # proc[c] =>
                   Registration' = Registration]_vars

\* a job started by triggerNow() on a scheduler that was never started has
\* passed the validation and is in processEmails()
C24_Witness ==
    \E c \in Callers :
        /\ Manual(c) /\ ~proc[c].status
        /\ proc[c].pc = "listing"
        /\ ~cron.active /\ tasks = <<>>

\* ---- C25 ----------------------------------------------------------------
\* job c was started by the scheduler: by the recurring trigger or by the
\* run-on-start timer
Scheduled(c) == proc[c].kind = "job" /\ hist[c].origin = "scheduler"

\* C25: the scheduler starts a job only while it is active, that is, never
\* between a stop() that returned true and the next start() that succeeded.
C25_StopPreventsRuns ==
    [][\A c \in Callers :
          hist[c].origin = "none" /\ hist'[c].origin = "scheduler" =>
              cron.active]_vars

\* ---- C26 ----------------------------------------------------------------
\* a stop(), destroy() or updateInterval() call was made
Interrupted == last.op \in {"stop", "destroy", "updateInterval"}

\* every email of the batch of call c has its entry, sent or failed
AllTerminal(c) ==
    /\ Len(proc[c].results.details) = Len(proc[c].emails)
    /\ \A i \in EmailsOf(c) :
           /\ proc[c].results.details[i].recipientId = proc[c].emails[i].recipientId
           /\ proc[c].results.details[i].status \in {"sent", "failed"}

\* C26: a stop(), destroy() or updateInterval() call made while a run started
\* by a tick is in flight changes nothing of that run (its position, batch,
\* results, the processing flag, the last-send time); the run goes on, and
\* when it has returned every recipient of its batch has a terminal status
\* and the processing flag is released.
C26_NoMidRunCancellation ==
    /\ [](\A c \in Callers :
            Scheduled(c) /\ Interrupted =>
                /\ proc[c].pc \in RunBody \cup {"returned", "threw"}
                /\ proc[c].pc = "returned" => AllTerminal(c) /\ ~processing
                /\ proc[c].pc = "threw" => ~processing)
    /\ [][last' # last =>
            UNCHANGED <<processing, lastSentTime, sheet, proc, hist>>]_vars

\* the scheduler was stopped while the tick's run was in flight, and the run
\* has returned with every recipient of Sheet1 sent or failed
C26_Witness ==
    \E c \in Callers :
        /\ Scheduled(c) /\ proc[c].pc = "returned"
        /\ last.op = "stop" /\ last.ret /\ ~cron.active
        /\ Len(proc[c].emails) = MaxRecipients
        /\ AllTerminal(c)
        /\ proc[c].results.sent >= 1 /\ proc[c].results.failed >= 1

\* ---- C27 ----------------------------------------------------------------
\* the recipient field a recognized identifier stands for
Mapped(recipient, id) ==
    IF id = "email" THEN recipient.primaryEmail
    ELSE IF id = "company" THEN recipient.name
    ELSE recipient[id]

\* text `to` is text `from` with every recognized token replaced by the
\* recipient's field and everything else left as it was
Personalized(from, to, recipient) ==
    /\ Len(to) = Len(from)
    /\ \A i \in 1..Len(from) :
           IF from[i].ph /\ from[i].s \in Recognized
           THEN to[i] = Lit(Mapped(recipient, from[i].s))
           ELSE to[i] = from[i]

\* C27: the subject and the body of the message prepareEmailBatch prepares
\* hold the recipient's field in place of every recognized token of the
\* template, and every other token and text of the template verbatim.
C27_PipelinePersonalization ==
    probe.fn = "prepareEmailBatch" /\ probe.done =>
        /\ Personalized(probe.arg.template.subject, probe.out.subject, probe.arg.recipient)
        /\ Personalized(formatEmailContent(probe.arg.template.content), probe.out.html,
                        probe.arg.recipient)

\* ---- C28 ----------------------------------------------------------------
\* in text `to`, rendered from `from`, every recognized token whose field is
\* empty has become the empty string
EmptyForMissing(from, to, recipient) ==
    \A i \in 1..Len(from) :
        from[i].ph /\ from[i].s \in Recognized /\ Mapped(recipient, from[i].s) = "" =>
            to[i] = Lit("")

\* C28: prepareEmailBatch and personalizeContent render a recognized token
\* whose recipient field is missing or empty, name included, as the empty
\* string.
C28_MissingFieldEmpty ==
    /\ probe.fn = "prepareEmailBatch" /\ probe.done =>
           EmptyForMissing(probe.arg.template.subject, probe.out.subject,
                           probe.arg.recipient)
    /\ probe.fn = "personalizeContent" /\ probe.done =>
           /\ EmptyForMissing(probe.arg.template.subject, probe.out.subject,
                              probe.arg.recipient)
           /\ EmptyForMissing(probe.arg.template.content, probe.out.content,
                              probe.arg.recipient)

\* ---- C29 ----------------------------------------------------------------
\* C29: a getEmailPreview() call, made while a run is in progress or not,
\* leaves the processing flag, the last-send time, Sheet1 and every call in
\* flight (its sends, its Store calls) as they are, and returns: when one of
\* its Store reads threw it returns the error-placeholder preview.
C29_PreviewNoEffect ==
    /\ [](probe.fn = "getEmailPreview" =>
            /\ probe.done /\ ~probe.threw
            /\ probe.arg.read = "throw" \/ probe.arg.list = "throw" =>
                   /\ probe.out.subject = ErrorPreview.subject
                   /\ probe.out.content = ErrorPreview.content
                   /\ probe.out.recipient = NoRecipient)
    /\ [][probe' # probe =>
            UNCHANGED <<processing, lastSentTime, sheet, proc, hist>>]_vars

\* a preview whose getRecipientData() threw was answered with the error
\* placeholder while a run was sending
C29_Witness ==
    /\ probe.fn = "getEmailPreview"
    /\ probe.arg.processing /\ probe.arg.list = "throw" /\ probe.arg.read = "ok"
    /\ probe.out.subject = ErrorPreview.subject
    /\ \E c \in Callers : proc[c].pc = "sending" /\ hist[c].sends >= 1

\* ---- C30 ----------------------------------------------------------------
\* none of the calls validateConfiguration makes throws
NoneThrows(i) == i.auth # "throw" /\ i.list # "throw" /\ i.read # "throw"

\* the four conditions validateConfiguration checks
AllChecksPass(i) ==
    /\ i.sheets
    /\ i.auth = "true"
    /\ i.list = "ok" /\ Len(i.recipients) > 0
    /\ i.read = "ok" /\ ~IsInvalidTemplate(getEmailTemplate(i.rows, i.pick))

\* C30: validateConfiguration() reports valid = true exactly when its issue
\* list is empty, and that is exactly when the connection test passed, the
\* transport is authenticated, the recipient list is not empty and the
\* template has a subject and a content; when one of its calls throws, the
\* call returns with the error as an issue.
C30_ValidateConfiguration ==
    probe.fn = "validateConfiguration" /\ probe.done =>
        /\ probe.out.valid <=> probe.out.issues = <<>>
        /\ probe.out.valid <=> AllChecksPass(probe.arg)
        /\ ~NoneThrows(probe.arg) =>
               \E k \in 1..Len(probe.out.issues) : probe.out.issues[k] = ValidationError

\* a validation whose template read threw after two failed checks has
\* returned three issues
C30_Witness ==
    /\ probe.fn = "validateConfiguration" /\ probe.done
    /\ ~probe.arg.sheets /\ probe.arg.auth = "false"
    /\ probe.arg.list = "ok" /\ Len(probe.arg.recipients) > 0
    /\ probe.arg.read = "throw"
    /\ ~probe.out.valid
    /\ Len(probe.out.issues) = 3 /\ probe.out.issues[3] = ValidationError

\* ---- C31 ----------------------------------------------------------------
\* the values EMAIL_BATCH_SIZE can be configured to that are below the number
\* of rows the Store can hold
BatchSizes == 1..(MaxRecipients - 1)

\* C31: the summary of a processEmails run (POST /api/send-emails or a job)
\* over the Store's unsent recipients has total at most the configured
\* EMAIL_BATCH_SIZE, whatever that is configured to.
C31_BatchSize ==
    \A size \in BatchSizes : \A c \in Callers :
        (/\ proc[c].pc = "returned"
         /\ proc[c].kind \in {"all", "job"}
         /\ Len(proc[c].emails) >= 1) =>
            proc[c].ret.total <= size

\* ---- C32 ----------------------------------------------------------------
\* C32: between events the scheduler is active exactly when it holds a
\* trigger handle, a next-run estimate exists only while it is active, and
\* right after a stop() that returned true the handle is released, its task
\* destroyed and the estimate cleared.
C32_StateConsistency ==
    /\ cron.active <=> cron.currentJob # NoJob
    /\ cron.nextRunTime # <<>> => cron.active
    /\ (last.op = "stop" /\ last.ret) =>
           /\ ~cron.active /\ cron.currentJob = NoJob /\ cron.nextRunTime = <<>>
           /\ tasks[last.before.currentJob].status = "destroyed"

\* a stop() has released the trigger of a started scheduler that had an
\* estimate, and a job has completed
C32_Witness ==
    /\ last.op = "stop" /\ last.ret
    /\ last.before.active /\ last.before.nextRunTime # <<>>
    /\ cron.currentJob = NoJob
    /\ \E c \in Jobs : proc[c].pc = "done"

\* ---- C33 ----------------------------------------------------------------
\* C33: the trigger of a scheduler started with N < 60 fires again N minutes
\* after each firing, and with N >= 60 floor(N / 60) hours after it.
C33_TriggerCadence ==
    (probe.fn = "nextFiring" /\ probe.done) =>
        probe.out - probe.arg.at =
            IF probe.arg.interval < 60 THEN probe.arg.interval
            ELSE (probe.arg.interval \div 60) * 60

\* ---- C34 ----------------------------------------------------------------
\* the run of call c has prepared its messages
Prepared(c) ==
    proc[c].pc \in {"sending", "backoff", "rateWait", "logging", "updating", "returned"}
    /\ Len(proc[c].recipients) >= 1

\* C34: a run never fetches the template more than once and never before its
\* recipients are listed; once it has prepared its messages (so before its
\* first send) it has fetched the template exactly once and every message is
\* rendered from that template; a run that returned for an empty list has
\* not fetched it.
C34_OneTemplatePerRun ==
    \A c \in Callers :
        /\ hist[c].templateCalls <= 1
        /\ proc[c].pc = "listing" => hist[c].templateCalls = 0
        /\ hist[c].templateCalls = 1 => Len(proc[c].recipients) >= 1
        /\ hist[c].sends >= 1 => Prepared(c)
        /\ Prepared(c) =>
               /\ hist[c].templateCalls = 1 /\ Len(hist[c].template) = 1
               /\ proc[c].emails =
                      prepareEmailBatch(proc[c].recipients, hist[c].template[1])
        /\ (proc[c].pc = "returned" /\ Len(proc[c].recipients) = 0) =>
               hist[c].templateCalls = 0 /\ hist[c].template = <<>>

\* a run is sending to its second recipient a message rendered from the one
\* template row it fetched
C34_Witness ==
    \E c \in Callers :
        /\ proc[c].pc = "sending" /\ proc[c].idx = 2
        /\ hist[c].templateCalls = 1 /\ ~hist[c].noValidRows
        /\ proc[c].emails[2].subject = hist[c].template[1].subject

\* ---- C35 ----------------------------------------------------------------
\* the rows the next run of the process would list and send to
Unsent == {getUnprocessedRecipients(sheet)[i].rowIndex :
              i \in 1..Len(getUnprocessedRecipients(sheet))}

\* C35: once a run has returned with the status of its recipients recorded
\* (every logEmailResult and updateRecipientStatus call returned true), none
\* of them is among the Store's unsent recipients, which are what a later
\* run lists and sends to.
C35_NoResend ==
    \A c \in Callers :
        (/\ proc[c].pc = "returned"
         /\ Len(proc[c].emails) >= 1
         /\ ~hist[c].writeFailed) =>
            \A k \in 1..Len(hist[c].updated) : hist[c].updated[k] \notin Unsent

\* ---- C36 ----------------------------------------------------------------
\* call c is rejected in this step
Rejects(c) == proc[c].pc # "rejected" /\ proc'[c].pc = "rejected"

\* C36: the step that rejects a call, and the rejected call's return to its
\* caller, leave the processing flag true and the running call running; the
\* flag is true for as long as a run body is active, and every call made
\* while the flag is true is rejected.
C36_RejectionKeepsGuard ==
    /\ [](\A c \in Callers : Running(c) => processing)
    /\ [][\A c \in Callers :
             /\ Rejects(c) =>
                    /\ processing /\ processing'
                    /\ \E d \in Callers \ {c} : Running(d) /\ proc'[d].pc = proc[d].pc
             /\ (proc[c].pc = "rejected" /\ proc'[c].pc # "rejected") =>
                    processing' = processing
             /\ (Invokes(c) /\ processing) => proc'[c].pc = "rejected"]_vars

\* a job that found the flag false was rejected by processEmails() while a
\* direct call was waiting out a backoff, and the flag is still set
C36_Witness ==
    \E c, d \in Callers :
        /\ proc[c].pc = "rejected" /\ proc[c].kind = "job"
        /\ proc[d].pc = "backoff"
        /\ processing

\* ---- C37 ----------------------------------------------------------------
\* job c read processing = false and its processEmails() call was rejected:
\* another call entered the pipeline between the read and the call
LostRace(c) == proc[c].kind = "job" /\ ~proc[c].status /\ proc[c].pc = "rejected"

\* the successful sends call d has made for email i
Deliveries(d, i) ==
    Cardinality({k \in 1..Len(hist[d].outcomes[i]) : hist[d].outcomes[i][k]})

\* C37: when a job that read processing = false is rejected by
\* processEmails(), exactly one other call is running the pipeline body, the
\* rejected job has made no send and no Store call, no recipient of the
\* running call has been delivered to twice, and the rejected job ends
\* without an exception, leaving the flag and the scheduler as they are.
C37_CheckThenRunRace ==
    /\ [](\A c \in Callers :
             LostRace(c) =>
                 /\ Cardinality({d \in Callers \ {c} : Running(d)}) = 1
                 /\ hist[c].sends = 0 /\ hist[c].storeCalls = 0
                 /\ \A d \in Callers \ {c} : \A i \in 1..Len(hist[d].outcomes) :
                        Deliveries(d, i) <= 1)
    /\ [][\A c \in Callers :
             (LostRace(c) /\ proc'[c].pc # "rejected") =>
                 /\ proc'[c].pc = "done"
                 /\ processing' = processing /\ cron' = cron
                 /\ \A d \in Callers \ {c} : proc'[d] = proc[d]]_vars

\* two jobs both read processing = false; one is sending to its second
\* recipient, the other was rejected
C37_Witness ==
    \E c, d \in Callers :
        /\ LostRace(c)
        /\ proc[d].kind = "job" /\ ~proc[d].status
        /\ proc[d].pc = "sending" /\ proc[d].idx = 2

\* ---- C38 ----------------------------------------------------------------
\* C38: after a start() or updateInterval() that returned false, the active
\* flag, the interval, the trigger handle and the library's triggers are
\* what they were before the call.
C38_FailedCallNoChange ==
    (last.op \in {"start", "updateInterval"} /\ ~last.ret) =>
        /\ cron.active = last.before.active
        /\ cron.interval = last.before.interval
        /\ cron.currentJob = last.before.currentJob
        /\ tasks = last.tasksBefore

\* ---- C39 ----------------------------------------------------------------
\* C39: a run makes at most maxRetryAttempts (3) sendEmail calls per
\* recipient; when every call it awaits settles, an accepted call eventually
\* resolves or rejects, and the processing flag it set eventually is false.
C39_RunTermination ==
    /\ [](\A c \in FirstJob : \A i \in 1..Len(hist[c].sendCount) :
              hist[c].sendCount[i] <= maxRetries)
    /\ \A c \in FirstJob : Running(c) ~> proc[c].pc \in {"returned", "threw"}
    /\ processing ~> ~processing

\* a run whose first recipient used up its three sends has resolved and the
\* flag is false
C39_Witness ==
    \E c \in FirstJob :
        /\ proc[c].pc = "returned" /\ Len(proc[c].emails) = 2
        /\ hist[c].sendCount[1] = 3 /\ AllFailed(c, 1)
        /\ ~processing

\* ---- C40 ----------------------------------------------------------------
\* C40: the subject prepareEmailBatch renders for a template and a recipient
\* is the subject personalizeContent, which the preview uses, renders for
\* them.
C40_PreviewMatchesSent ==
    (probe.fn = "prepareEmailBatch" /\ probe.done) =>
        probe.out.subject =
            personalizeContent(probe.arg.template, probe.arg.recipient).subject

====
